---- MODULE Spec2Model ----
(***************************************************************************)
(* Model of covidviz/data.py: the dated snapshot cache around the two      *)
(* remote fetchers, the paginated case-report fetch, the mobility filter   *)
(* and the daily aggregation pipeline of PlotData.get_df.                  *)
(*                                                                         *)
(* Data frames are sequences of records (row order is the frame's order).  *)
(* A nullable string column holds the string "NaN" for a missing value; a  *)
(* nullable number or text column holds Null (<<>>) or Some(v) (<<v>>).    *)
(* Calendar dates are day numbers; day 1 is 2020-03-01.                    *)
(***************************************************************************)
EXTENDS Integers, Sequences, FiniteSets

VARIABLES
    today,        \* datetime.datetime.now().date()
    rkiRemote,    \* the features the case-report service holds, in its order
    mobRemote,    \* the rows of the global mobility CSV
    rkiFiles,     \* day -> content of rki_infections_<day>.pkl, for the files that exist
    mobFiles,     \* day -> content of google_mobility_<day>.pkl, for the files that exist
    last,         \* the last cache call: its arguments, what it saw and what it gave back
    pgRemote,     \* pagination: the service's features
    pgOut,        \* pagination: the fetch's result and the offsets it requested
    raw,          \* pipeline: the frame get_rki_data returned
    measures,     \* pipeline: the frame read_measure_data returned
    mobility,     \* pipeline: the frame get_google_mobility_data returned
    stage,        \* pipeline: how far get_df has got
    infections,   \* pipeline: self.infections as far as computed
    df            \* pipeline: the frame get_df returns

cacheVars == <<today, rkiRemote, mobRemote, rkiFiles, mobFiles, last>>
pageVars  == <<pgRemote, pgOut>>
pipeVars  == <<raw, measures, mobility, stage, infections, df>>
vars      == <<cacheVars, pageVars, pipeVars>>

(***************************************************************************)
(* Bounds of the model.                                                    *)
(***************************************************************************)
NumStates  == 2     \* how many of the 16 states are requested
MaxDay     == 2     \* calendar days the cache is observed over
MaxPublish == 1     \* times the remote sources publish in the cache runs
MaxFeed    == 2     \* rows of the mobility CSV in the mobility runs
MaxPages   == 2     \* full pages one region fills in the pagination runs
Slack      == 25    \* how far a region's size lies from a multiple of the page size
MaxRaw     == 3     \* case-report rows in the series runs
MaxRawU    == 2     \* case-report rows in the unified-frame runs
MaxMeas    == 2     \* rows of the measures table

(***************************************************************************)
(* Helpers on sequences.                                                   *)
(***************************************************************************)
Null == <<>>
Some(v) == <<v>>

Range(s) == {s[i] : i \in 1..Len(s)}

SeqsUpTo(S, n) == UNION {[1..k -> S] : k \in 0..n}

RECURSIVE Sum(_, _)
Sum(f, S) == IF S = {} THEN 0
             ELSE LET x == CHOOSE y \in S : TRUE IN f[x] + Sum(f, S \ {x})

RECURSIVE Concat(_)
Concat(ss) == IF ss = <<>> THEN <<>> ELSE Head(ss) \o Concat(Tail(ss))

Min(S) == CHOOSE x \in S : \A y \in S : x <= y

(***************************************************************************)
(* STATE_MAPPER: English name -> German name, in the dict's order.         *)
(***************************************************************************)
STATE_MAPPER ==
    << <<"Baden-Wuerttemberg", "Baden-Wuerttemberg">>,
       <<"Bavaria", "Bayern">>,
       <<"Berlin", "Berlin">>,
       <<"Brandenburg", "Brandenburg">>,
       <<"Bremen", "Bremen">>,
       <<"Hamburg", "Hamburg">>,
       <<"Hesse", "Hessen">>,
       <<"Lower Saxony", "Niedersachsen">>,
       <<"Mecklenburg-Vorpommern", "Mecklenburg-Vorpommern">>,
       <<"North Rhine-Westphalia", "Nordrhein-Westfalen">>,
       <<"Rhineland-Palatinate", "Rheinland-Pfalz">>,
       <<"Saarland", "Saarland">>,
       <<"Saxony", "Sachsen">>,
       <<"Saxony-Anhalt", "Sachsen-Anhalt">>,
       <<"Schleswig-Holstein", "Schleswig-Holstein">>,
       <<"Thuringia", "Thueringen">> >>

\* Series.map(STATE_MAPPER): a name that is no key maps to NaN
MapState(name) ==
    IF \E i \in 1..Len(STATE_MAPPER) : STATE_MAPPER[i][1] = name
    THEN STATE_MAPPER[CHOOSE i \in 1..Len(STATE_MAPPER) : STATE_MAPPER[i][1] = name][2]
    ELSE "NaN"

\* states=STATE_MAPPER.values(), cut to the first NumStates
states == [i \in 1..NumStates |-> STATE_MAPPER[i][2]]

\* the order of the strings, as sort_index and sort_values use it
SortedNames ==
    << "Baden-Wuerttemberg", "Bayern", "Berlin", "Brandenburg", "Bremen", "Hamburg",
       "Hessen", "Mecklenburg-Vorpommern", "Niedersachsen", "Nordrhein-Westfalen",
       "Rheinland-Pfalz", "Saarland", "Sachsen", "Sachsen-Anhalt",
       "Schleswig-Holstein", "Thueringen" >>

\* a missing name sorts last
Rank(name) ==
    IF \E i \in 1..Len(SortedNames) : SortedNames[i] = name
    THEN CHOOSE i \in 1..Len(SortedNames) : SortedNames[i] = name
    ELSE Len(SortedNames) + 1

(***************************************************************************)
(* fetch_infection_data_from_rki                                           *)
(***************************************************************************)
PageSize == 2000

\* Meldedatum arrives in milliseconds; fromtimestamp(x / 1e3) takes seconds
MsPerSecond == 1000

\* a calendar day, in seconds
SecondsPerDay == 86400

\* the timestamp the service gives a report of day d
MsOfDay(d) == d * SecondsPerDay * MsPerSecond

\* the service's answer to where=Bundesland='b', resultOffset, resultRecordCount
RemoteQuery(remote, bundesland, offset, count) ==
    LET hits == SelectSeq(remote, LAMBDA x : x.Bundesland = bundesland)
        hi   == IF offset + count < Len(hits) THEN offset + count ELSE Len(hits)
    IN  SubSeq(hits, offset + 1, hi)

\* one feature -> one row of the frame
FeatureRow(x, bundesland) ==
    [Meldedatum |-> x.Meldedatum \div MsPerSecond, Neuinfektionen |-> x.AnzahlFall,
     Bundesland |-> bundesland]

MutNeedsNextPage(n) == n > PageSize

\* if len(data_list) >= 2000
NeedsNextPage(n) == n >= PageSize

\* the rows fetched from `offset` on, and the offsets requested, in order
RECURSIVE FetchPages(_, _, _)
FetchPages(remote, bundesland, offset) ==
    LET data == RemoteQuery(remote, bundesland, offset, PageSize)
        page == [i \in 1..Len(data) |-> FeatureRow(data[i], bundesland)]
    IN  IF NeedsNextPage(Len(data))
        THEN LET rest == FetchPages(remote, bundesland, offset + PageSize)
             IN  [df |-> page \o rest.df, offsets |-> <<offset>> \o rest.offsets]
        ELSE [df |-> page, offsets |-> <<offset>>]

fetch_infection_data_from_rki(remote, bundesland) ==
    FetchPages(remote, bundesland, 0).df

(***************************************************************************)
(* get_google_mobility_data: the download, filtered and renamed.  A row    *)
(* keeps its index label, the position it had in the CSV.                  *)
(***************************************************************************)
\* .query("country_region_code == 'DE' and not sub_region_1.isna()")
MobilityQuery(r) == r.country_region_code = "DE" /\ r.sub_region_1 # "NaN"

RECURSIVE FilterRows(_, _)
FilterRows(feed, i) ==
    IF i > Len(feed) THEN <<>>
    ELSE (IF MobilityQuery(feed[i])
          THEN << [index |-> i,
                   Bundesland |-> MapState(feed[i].sub_region_1),
                   Meldedatum |-> feed[i].date,
                   percent_change |-> feed[i].percent_change] >>
          ELSE <<>>) \o FilterRows(feed, i + 1)

DownloadMobility(feed) == FilterRows(feed, 1)

(***************************************************************************)
(* The snapshot cache.  A file is the pickled frame and the day it was     *)
(* written on.                                                             *)
(***************************************************************************)
IsFile(files, day) == day \in DOMAIN files

WriteFile(files, day, frame) ==
    [d \in DOMAIN files \cup {day} |->
        IF d = day THEN [df |-> frame, written |-> today] ELSE files[d]]

\* the frames of the first k states, concatenated (pd.concat(dfs, axis=0))
ConcatStates(remote, k) ==
    Concat([i \in 1..k |-> fetch_infection_data_from_rki(remote, states[i])])

MutCacheMiss(files, overwrite) == ~ IsFile(files, today)

\* if not out_file.is_file() or overwrite
CacheMiss(files, overwrite) == ~ IsFile(files, today) \/ overwrite

\* pd.read_pickle(out_file)
CachedFile(files) == files[today]

\* get_rki_data; failAt = k > 0: the fetch of the k-th state raises
GetRkiData(overwrite, failAt) ==
    /\ IF CacheMiss(rkiFiles, overwrite)
       THEN LET done == IF failAt = 0 THEN Len(states) ELSE failAt - 1
            IN  /\ rkiFiles' = IF done >= 1
                               THEN WriteFile(rkiFiles, today, ConcatStates(rkiRemote, done))
                               ELSE rkiFiles
                /\ last' = [fn |-> "rki", overwrite |-> overwrite,
                            fetches |-> IF failAt = 0 THEN done ELSE done + 1,
                            outcome |-> IF failAt = 0 THEN "returned" ELSE "raised",
                            result |-> IF failAt = 0 THEN ConcatStates(rkiRemote, done)
                                       ELSE <<>>]
       ELSE /\ failAt = 0
            /\ rkiFiles' = rkiFiles
            /\ last' = [fn |-> "rki", overwrite |-> overwrite,
                        fetches |-> 0, outcome |-> "returned",
                        result |-> CachedFile(rkiFiles).df]
    /\ UNCHANGED <<today, rkiRemote, mobRemote, mobFiles, pageVars, pipeVars>>

\* get_google_mobility_data; fail: pd.read_csv raises
GetGoogleMobilityData(overwrite, fail) ==
    /\ IF CacheMiss(mobFiles, overwrite)
       THEN /\ mobFiles' = IF fail THEN mobFiles
                           ELSE WriteFile(mobFiles, today, DownloadMobility(mobRemote))
            /\ last' = [fn |-> "mob", overwrite |-> overwrite,
                        fetches |-> 1,
                        outcome |-> IF fail THEN "raised" ELSE "returned",
                        result |-> IF fail THEN <<>> ELSE DownloadMobility(mobRemote)]
       ELSE /\ ~ fail
            /\ mobFiles' = mobFiles
            /\ last' = [fn |-> "mob", overwrite |-> overwrite,
                        fetches |-> 0, outcome |-> "returned",
                        result |-> CachedFile(mobFiles).df]
    /\ UNCHANGED <<today, rkiRemote, mobRemote, rkiFiles, pageVars, pipeVars>>

\* a row of the global CSV
FeedRow(code, sub1, sub2, date) ==
    [country_region_code |-> code, sub_region_1 |-> sub1, sub_region_2 |-> sub2,
     date |-> date, percent_change |-> -40]

\* the rows the CSV can hold for a date: other countries, the national
\* aggregate, states, and districts of a state
FeedRows(dates) ==
    {FeedRow(c, s1, s2, d) :
        c \in {"DE", "FR"}, s1 \in {"NaN", "Bavaria", "Berlin"},
        s2 \in {"NaN", "Munich"}, d \in dates}
    \ {FeedRow(c, "NaN", "Munich", d) : c \in {"DE", "FR"}, d \in dates}

\* both sources publish: the service one more report of state s, the CSV
\* one more row of a state
Publish(s) ==
    /\ Len(mobRemote) < MaxPublish
    /\ rkiRemote' = Append(rkiRemote,
           [Meldedatum |-> MsOfDay(today), AnzahlFall |-> 25, Bundesland |-> s])
    /\ mobRemote' = Append(mobRemote, FeedRow("DE", "Bavaria", "NaN", today))
    /\ UNCHANGED <<today, rkiFiles, mobFiles, last, pageVars, pipeVars>>

\* midnight passes
NextDay ==
    /\ today < MaxDay
    /\ today' = today + 1
    /\ UNCHANGED <<rkiRemote, mobRemote, rkiFiles, mobFiles, last, pageVars, pipeVars>>

NoCall == [fn |-> "none", overwrite |-> FALSE, fetches |-> 0,
           outcome |-> "none", result |-> <<>>]

\* variables a run does not use stay at these values
PageIdle == pgRemote = <<>> /\ pgOut = [df |-> <<>>, offsets |-> <<>>, done |-> FALSE]
PipeIdle == /\ raw = <<>> /\ measures = <<>> /\ mobility = <<>>
            /\ stage = "idle" /\ infections = <<>> /\ df = <<>>
CacheIdle == /\ today = 1 /\ rkiRemote = <<>> /\ mobRemote = <<>>
             /\ rkiFiles = <<>> /\ mobFiles = <<>> /\ last = NoCall

(***************************************************************************)
(* Spec: the cache over several days, with the remote sources changing.    *)
(***************************************************************************)
Init ==
    /\ today = 1
    /\ rkiRemote = [i \in 1..NumStates |->
           [Meldedatum |-> MsOfDay(1), AnzahlFall |-> 25, Bundesland |-> states[i]]]
    /\ mobRemote = <<>>
    /\ rkiFiles = <<>>
    /\ mobFiles = <<>>
    /\ last = NoCall
    /\ PageIdle
    /\ PipeIdle

Next ==
    \/ \E ow \in BOOLEAN, k \in 0..NumStates : GetRkiData(ow, k)
    \/ \E ow \in BOOLEAN, f \in BOOLEAN : GetGoogleMobilityData(ow, f)
    \/ Publish(states[1])
    \/ NextDay

Spec == Init /\ [][Next]_vars

\* what the service holds for the requested states, state by state
HeldForStates(remote) ==
    Concat([i \in 1..NumStates |->
        LET hits == SelectSeq(remote, LAMBDA x : x.Bundesland = states[i])
        IN  [j \in 1..Len(hits) |-> FeatureRow(hits[j], states[i])]])

\* C1: a call finds its snapshot in the cache, and does not fetch, exactly
\* when a file of the current date exists and overwrite is false; it then
\* returns that file's frame, which was written on the current date, and
\* leaves the files alone.  Every other call fetches, and when it returns, it
\* returns what the remote source held, and the file of the current date
\* holds exactly that, the other files being as they were.
C1_SnapshotCache ==
    [][(/\ last'.fn \in {"rki", "mob"}
        /\ <<last, rkiFiles, mobFiles>>' # <<last, rkiFiles, mobFiles>>) =>
        LET rki    == last'.fn = "rki"
            before == IF rki THEN rkiFiles ELSE mobFiles
            after  == IF rki THEN rkiFiles' ELSE mobFiles'
            held   == IF rki THEN HeldForStates(rkiRemote) ELSE DownloadMobility(mobRemote)
            hit    == IsFile(before, today) /\ ~ last'.overwrite
        IN  /\ (last'.fetches = 0) <=> hit
            /\ hit => /\ last'.outcome = "returned"
                      /\ last'.result = before[today].df
                      /\ before[today].written = today
                      /\ after = before
            /\ (~ hit /\ last'.outcome = "returned") =>
                      /\ last'.result = held
                      /\ after = [d \in DOMAIN before \cup {today} |->
                                    IF d = today THEN [df |-> held, written |-> today]
                                    ELSE before[d]]]_vars

\* C1 witness: on the second day a call was answered from that day's file
\* while the first day's file, with other content, is still on disk, and
\* the mobility snapshot of the second day has been written as well.
C1_Witness ==
    /\ last.fn = "rki" /\ today = 2 /\ last.fetches = 0
    /\ IsFile(rkiFiles, 1) /\ rkiFiles[1].df # last.result
    /\ IsFile(mobFiles, 2) /\ mobFiles[2].df # <<>>

\* C10: a case-report snapshot on disk holds rows of every requested state,
\* and so does every frame get_rki_data returns.
C10_NoPartialSnapshot ==
    LET Complete(frame) ==
            \A i \in 1..NumStates : \E j \in 1..Len(frame) : frame[j].Bundesland = states[i]
    IN  /\ \A d \in DOMAIN rkiFiles : Complete(rkiFiles[d].df)
        /\ (last.fn = "rki" /\ last.outcome = "returned") => Complete(last.result)

(***************************************************************************)
(* The aggregation pipeline of PlotData.get_df.                            *)
(***************************************************************************)
\* n_cases=50
NCases == 50

\* .query("Meldedatum >= '2020-03-01'"): day 1 is 2020-03-01
DateFloor == 1

\* pd.Grouper(key="Meldedatum", freq="D"): the calendar day of a timestamp
Day(ts) == ts \div SecondsPerDay

\* the order of (Bundesland, Meldedatum) keys
KeyLess(a, b) == \/ Rank(a[1]) < Rank(b[1])
                 \/ a[1] = b[1] /\ a[2] < b[2]

\* the keys of a set in ascending order
RECURSIVE SortKeys(_)
SortKeys(K) ==
    IF K = {} THEN <<>>
    ELSE LET m == CHOOSE x \in K : \A y \in K \ {x} : KeyLess(x, y)
         IN  <<m>> \o SortKeys(K \ {m})

MutDailySums(frame) ==
    LET keys == SortKeys({<<frame[j].Bundesland, Day(frame[j].Meldedatum)>> :
                             j \in 1..Len(frame)})
    IN  [i \in 1..Len(keys) |->
            [Bundesland |-> keys[i][1], Meldedatum |-> keys[i][2],
             Neuinfektionen |->
                 frame[Min({j \in 1..Len(frame) :
                              /\ frame[j].Bundesland = keys[i][1]
                              /\ Day(frame[j].Meldedatum) = keys[i][2]})].Neuinfektionen]]

\* groupby(["Bundesland", Grouper])[["Neuinfektionen"]].sum().sort_index().reset_index()
DailySums(frame) ==
    LET keys == SortKeys({<<frame[j].Bundesland, Day(frame[j].Meldedatum)>> :
                             j \in 1..Len(frame)})
        val  == [j \in 1..Len(frame) |-> frame[j].Neuinfektionen]
    IN  [i \in 1..Len(keys) |->
            [Bundesland |-> keys[i][1], Meldedatum |-> keys[i][2],
             Neuinfektionen |->
                 Sum(val, {j \in 1..Len(frame) :
                              /\ frame[j].Bundesland = keys[i][1]
                              /\ Day(frame[j].Meldedatum) = keys[i][2]})]]

MutCumulative(frame, i) ==
    Sum([j \in 1..Len(frame) |-> frame[j].Neuinfektionen], 1..i)

\* groupby("Bundesland")["Neuinfektionen"].transform(cumsum), at row i
Cumulative(frame, i) ==
    Sum([j \in 1..Len(frame) |-> frame[j].Neuinfektionen],
        {j \in 1..i : frame[j].Bundesland = frame[i].Bundesland})

WithCumulative(frame) ==
    [i \in 1..Len(frame) |->
        [Bundesland |-> frame[i].Bundesland, Meldedatum |-> frame[i].Meldedatum,
         Neuinfektionen |-> frame[i].Neuinfektionen,
         infections_cumulative |-> Cumulative(frame, i)]]

MutReachedDates(frame, bundesland, n_cases) ==
    {frame[j].Meldedatum : j \in {k \in 1..Len(frame) :
                                     frame[k].infections_cumulative >= n_cases}}

\* query(infections_cumulative >= n_cases).groupby("Bundesland"): the dates of a group
ReachedDates(frame, bundesland, n_cases) ==
    {frame[j].Meldedatum : j \in {k \in 1..Len(frame) :
                                     /\ frame[k].Bundesland = bundesland
                                     /\ frame[k].infections_cumulative >= n_cases}}

\* add_days_since_n_cases: the inner merge keeps the rows of the groups the
\* right side has, in the left side's order
add_days_since_n_cases(frame, n_cases) ==
    LET kept == SelectSeq(frame,
                    LAMBDA r : ReachedDates(frame, r.Bundesland, n_cases) # {})
    IN  [i \in 1..Len(kept) |->
            LET date_n == Min(ReachedDates(frame, kept[i].Bundesland, n_cases))
            IN  [Bundesland |-> kept[i].Bundesland, Meldedatum |-> kept[i].Meldedatum,
                 Neuinfektionen |-> kept[i].Neuinfektionen,
                 infections_cumulative |-> kept[i].infections_cumulative,
                 date_n_cases |-> Some(date_n),
                 days_since_n_cases |-> Some(kept[i].Meldedatum - date_n)]]

prepare_daily_infections(frame, n_cases) ==
    add_days_since_n_cases(WithCumulative(DailySums(frame)), n_cases)

(***************************************************************************)
(* Texts are sequences of characters.                                      *)
(***************************************************************************)
Schule     == <<"S", "c", "h", "u", "l", "e">>
Mundschutz == <<"M", "u", "n", "d", "s", "c", "h", "u", "t", "z">>

\* " und "
Connector == <<" ", "u", "n", "d", " ">>

\* "und"
Separator == <<"u", "n", "d">>

\* sep.join(texts)
RECURSIVE Join(_, _)
Join(texts, sep) ==
    IF texts = <<>> THEN <<>>
    ELSE IF Len(texts) = 1 THEN texts[1]
    ELSE texts[1] \o sep \o Join(Tail(texts), sep)

\* len(text.split(sep)), scanning text from position i
RECURSIVE SplitCount(_, _, _)
SplitCount(text, sep, i) ==
    IF i + Len(sep) - 1 > Len(text) THEN 1
    ELSE IF SubSeq(text, i, i + Len(sep) - 1) = sep
         THEN 1 + SplitCount(text, sep, i + Len(sep))
         ELSE SplitCount(text, sep, i + 1)

\* the measure texts of a (Bundesland, gueltig_ab) group, in the table's order
GroupTexts(table, bundesland, date) ==
    LET rows == SelectSeq(table,
                    LAMBDA m : m.Bundesland = bundesland /\ m.gueltig_ab = date)
    IN  [j \in 1..Len(rows) |-> rows[j].Massnahme]

\* a frame in ascending (Bundesland, Meldedatum) order, equal keys in their order
RECURSIVE SortFrame(_)
SortFrame(frame) ==
    IF frame = <<>> THEN <<>>
    ELSE LET key(r) == <<r.Bundesland, r.Meldedatum>>
             i == CHOOSE k \in 1..Len(frame) :
                     /\ \A j \in 1..Len(frame) : ~ KeyLess(key(frame[j]), key(frame[k]))
                     /\ \A j \in 1..(k - 1) : key(frame[j]) # key(frame[k])
         IN  <<frame[i]>> \o
             SortFrame(SubSeq(frame, 1, i - 1) \o SubSeq(frame, i + 1, Len(frame)))

\* add_measures: the left merge with the grouped measures, then the sort
add_measures(frame, table) ==
    SortFrame(
        [i \in 1..Len(frame) |->
            LET texts == GroupTexts(table, frame[i].Bundesland, frame[i].Meldedatum)
            IN  [Bundesland |-> frame[i].Bundesland, Meldedatum |-> frame[i].Meldedatum,
                 Neuinfektionen |-> frame[i].Neuinfektionen,
                 infections_cumulative |-> frame[i].infections_cumulative,
                 date_n_cases |-> frame[i].date_n_cases,
                 days_since_n_cases |-> frame[i].days_since_n_cases,
                 Massnahmen |-> IF texts = <<>> THEN Null
                                ELSE Some(Join(texts, Connector))]])

MutAbsoluteGrowth(frame, i) ==
    IF i = 1 THEN Null
    ELSE Some(frame[i].infections_cumulative - frame[i - 1].infections_cumulative)

\* groupby("Bundesland")["infections_cumulative"].transform(diff), at row i
AbsoluteGrowth(frame, i) ==
    LET before == {j \in 1..(i - 1) : frame[j].Bundesland = frame[i].Bundesland}
    IN  IF before = {} THEN Null
        ELSE LET p == CHOOSE j \in before : \A k \in before : k <= j
             IN  Some(frame[i].infections_cumulative - frame[p].infections_cumulative)

\* len(x.split("und")) if isinstance(x, str) else 0
NumMeasures(x) == IF x = Null THEN 0 ELSE SplitCount(x[1], Separator, 1)

\* df["absolute_growth"] / df["infections_cumulative"].shift(), at row i: the
\* quotient is kept as <<numerator, denominator>>
RelativeGrowth(frame, i) ==
    IF i = 1 \/ AbsoluteGrowth(frame, i) = Null THEN Null
    ELSE Some(<<AbsoluteGrowth(frame, i)[1], frame[i - 1].infections_cumulative>>)

\* self.infections.assign(absolute_growth, num_measures, relative_growth)
\* (cases_logratio, a logarithm, is left out)
AssignGrowth(frame) ==
    [i \in 1..Len(frame) |->
        [Bundesland |-> frame[i].Bundesland, Meldedatum |-> frame[i].Meldedatum,
         Neuinfektionen |-> frame[i].Neuinfektionen,
         infections_cumulative |-> frame[i].infections_cumulative,
         date_n_cases |-> frame[i].date_n_cases,
         days_since_n_cases |-> frame[i].days_since_n_cases,
         Massnahmen |-> frame[i].Massnahmen,
         absolute_growth |-> AbsoluteGrowth(frame, i),
         num_measures |-> NumMeasures(frame[i].Massnahmen),
         relative_growth |-> RelativeGrowth(frame, i)]]

\* one row of the outer merge: the left row l and the right row r, either of
\* which may be missing (Null)
MergedRow(key, l, r) ==
    LET L(v) == IF l = Null THEN Null ELSE Some(v)
        pct  == IF r = Null THEN Null ELSE Some(r[1].percent_change)
    IN  [Bundesland |-> key[1], Meldedatum |-> key[2],
         infections_cumulative |-> IF l = Null THEN Null ELSE Some(l[1].infections_cumulative),
         days_since_n_cases |-> IF l = Null THEN Null ELSE l[1].days_since_n_cases,
         Massnahmen |-> IF l = Null THEN Null ELSE l[1].Massnahmen,
         absolute_growth |-> IF l = Null THEN Null ELSE l[1].absolute_growth,
         num_measures |-> IF l = Null THEN Null ELSE Some(l[1].num_measures),
         relative_growth |-> IF l = Null THEN Null ELSE l[1].relative_growth,
         activity |-> pct,
         total_neg_activity |-> IF pct # Null /\ pct[1] < 0 THEN 0 - pct[1] ELSE 0,
         total_pos_activity |-> IF pct # Null /\ pct[1] > 0 THEN pct[1] ELSE 0]

\* .merge(self.mobility, on=["Bundesland", "Meldedatum"], how="outer"): the
\* union of the keys in ascending order, a row for every pair of matching rows
MergeMobility(frame, mob) ==
    LET keys == SortKeys({<<frame[i].Bundesland, frame[i].Meldedatum>> : i \in 1..Len(frame)}
                         \cup {<<mob[i].Bundesland, mob[i].Meldedatum>> : i \in 1..Len(mob)})
        rowsOf(key) ==
            LET ls == SelectSeq(frame, LAMBDA x : <<x.Bundesland, x.Meldedatum>> = key)
                rs == SelectSeq(mob, LAMBDA x : <<x.Bundesland, x.Meldedatum>> = key)
            IN  IF rs = <<>> THEN [i \in 1..Len(ls) |-> MergedRow(key, Some(ls[i]), Null)]
                ELSE IF ls = <<>> THEN [i \in 1..Len(rs) |-> MergedRow(key, Null, Some(rs[i]))]
                ELSE Concat([i \in 1..Len(ls) |->
                        [j \in 1..Len(rs) |-> MergedRow(key, Some(ls[i]), Some(rs[j]))]])
    IN  Concat([k \in 1..Len(keys) |-> rowsOf(keys[k])])

\* .query("Meldedatum >= '2020-03-01'")
DateFloorQuery(frame) == SelectSeq(frame, LAMBDA r : r.Meldedatum >= DateFloor)

\* get_df, step by step
Prepare ==
    /\ stage = "raw"
    /\ infections' = prepare_daily_infections(raw, NCases)
    /\ stage' = "daily"
    /\ UNCHANGED <<raw, measures, mobility, df, cacheVars, pageVars>>

AddMeasures ==
    /\ stage = "daily"
    /\ infections' = add_measures(infections, measures)
    /\ stage' = "measures"
    /\ UNCHANGED <<raw, measures, mobility, df, cacheVars, pageVars>>

Assign ==
    /\ stage = "measures"
    /\ df' = AssignGrowth(infections)
    /\ stage' = "assigned"
    /\ UNCHANGED <<raw, measures, mobility, infections, cacheVars, pageVars>>

Unify ==
    /\ stage = "assigned"
    /\ df' = DateFloorQuery(MergeMobility(df, mobility))
    /\ stage' = "done"
    /\ UNCHANGED <<raw, measures, mobility, infections, cacheVars, pageVars>>

NextPipe == Prepare \/ AddMeasures \/ Assign \/ Unify

(***************************************************************************)
(* SpecSeries: get_df on every small frame of case reports.                *)
(***************************************************************************)
\* the frames of case reports: a row per state, timestamp and case count
RawRows(names, stamps, counts) ==
    {[Meldedatum |-> t, Neuinfektionen |-> c, Bundesland |-> b] :
        b \in names, t \in stamps, c \in counts}

\* three days, the first at 01:00; counts that correct downwards, stay below
\* the threshold, and reach it
InitSeries ==
    /\ raw \in SeqsUpTo(RawRows({"Bayern", "Berlin"},
                                {SecondsPerDay + 3600, 2 * SecondsPerDay, 3 * SecondsPerDay},
                                {-20, 25, 50}), MaxRaw)
    /\ measures = <<>>
    /\ mobility = <<>>
    /\ stage = "raw"
    /\ infections = <<>>
    /\ df = <<>>
    /\ CacheIdle
    /\ PageIdle

SpecSeries == InitSeries /\ [][NextPipe]_vars

\* what the case reports say, read off the raw frame
DatesOf(b) == {Day(raw[j].Meldedatum) : j \in {k \in 1..Len(raw) : raw[k].Bundesland = b}}

RegionsOf == {raw[j].Bundesland : j \in 1..Len(raw)}

DaySum(b, d) ==
    Sum([j \in 1..Len(raw) |-> raw[j].Neuinfektionen],
        {j \in 1..Len(raw) : raw[j].Bundesland = b /\ Day(raw[j].Meldedatum) = d})

CumAt(b, d) ==
    Sum([j \in 1..Len(raw) |-> raw[j].Neuinfektionen],
        {j \in 1..Len(raw) : raw[j].Bundesland = b /\ Day(raw[j].Meldedatum) <= d})

Reaches(b) == \E d \in DatesOf(b) : CumAt(b, d) >= NCases

ThresholdDate(b) == Min({d \in DatesOf(b) : CumAt(b, d) >= NCases})

RowsAt(frame, b, d) ==
    {i \in 1..Len(frame) : frame[i].Bundesland = b /\ frame[i].Meldedatum = d}

\* C3: a region that never reaches the threshold keeps a row for each of its
\* dates, with a null threshold date and a null days-since value.
C3_BelowThresholdKept ==
    stage = "daily" =>
        \A b \in RegionsOf : ~ Reaches(b) =>
            \A d \in DatesOf(b) :
                \E i \in RowsAt(infections, b, d) :
                    /\ infections[i].date_n_cases = Null
                    /\ infections[i].days_since_n_cases = Null

\* C4: a region that reaches the threshold keeps exactly one row for each of
\* its dates; each carries the region's own earliest date with cumulative
\* cases >= N, and the signed number of days from that date to the row's.
C4_ThresholdDate ==
    stage = "daily" =>
        \A b \in RegionsOf : Reaches(b) =>
            \A d \in DatesOf(b) :
                /\ Cardinality(RowsAt(infections, b, d)) = 1
                /\ \A i \in RowsAt(infections, b, d) :
                    /\ infections[i].date_n_cases = Some(ThresholdDate(b))
                    /\ infections[i].days_since_n_cases = Some(d - ThresholdDate(b))

\* C4 witness: a region with a row the day before, on, and the day after its
\* threshold date
C4_Witness ==
    /\ stage = "daily"
    /\ \E i, j, k \in 1..Len(infections) :
        /\ infections[i].Bundesland = infections[j].Bundesland
        /\ infections[j].Bundesland = infections[k].Bundesland
        /\ infections[i].days_since_n_cases = Some(-1)
        /\ infections[j].days_since_n_cases = Some(0)
        /\ infections[k].days_since_n_cases = Some(1)

\* every row's daily sum and cumulative count are the region's, up to its date
RunningSum ==
    \A i \in 1..Len(infections) :
        /\ infections[i].Neuinfektionen =
               DaySum(infections[i].Bundesland, infections[i].Meldedatum)
        /\ infections[i].infections_cumulative =
               CumAt(infections[i].Bundesland, infections[i].Meldedatum)

NonDecreasing(b) ==
    \A i, j \in 1..Len(infections) :
        (/\ infections[i].Bundesland = b /\ infections[j].Bundesland = b
         /\ infections[i].Meldedatum <= infections[j].Meldedatum)
        => infections[i].infections_cumulative <= infections[j].infections_cumulative

\* C5 as stated: cumulative cases are the running sum of the region's daily
\* sums, and never decrease with the date, whatever the case counts are.
C5_Original ==
    stage = "daily" =>
        /\ RunningSum
        /\ \A b \in RegionsOf : NonDecreasing(b)

\* C5 amended: cumulative cases are the running sum of the region's daily
\* sums, and never decrease with the date in a region none of whose daily
\* sums is negative.
C5_RunningSum ==
    stage = "daily" =>
        /\ RunningSum
        /\ \A b \in RegionsOf :
               (\A d \in DatesOf(b) : DaySum(b, d) >= 0) => NonDecreasing(b)

\* C5 witness: a region without a negative daily sum has two rows, the later
\* with the larger cumulative count, beside a region of another size
C5_Witness ==
    /\ stage = "daily"
    /\ \E i, j \in 1..Len(infections) :
        /\ infections[i].Bundesland = infections[j].Bundesland
        /\ infections[i].Meldedatum < infections[j].Meldedatum
        /\ infections[i].infections_cumulative < infections[j].infections_cumulative
        /\ \A d \in DatesOf(infections[i].Bundesland) :
               DaySum(infections[i].Bundesland, d) >= 0
    /\ Cardinality(RegionsOf) = 2

\* the frame with rows i and i + 1 exchanged
Swap(frame, i) ==
    [j \in 1..Len(frame) |->
        IF j = i THEN frame[i + 1] ELSE IF j = i + 1 THEN frame[i] ELSE frame[j]]

\* C6: the daily series does not depend on the order of the raw rows:
\* exchanging any two neighbouring rows gives the same series.  Every frame
\* is an initial state, so this holds along every chain of exchanges, that
\* is for every permutation, whether of whole regions or within a region.
C6_OrderInvariance ==
    stage = "daily" =>
        \A i \in 1..(Len(raw) - 1) :
            prepare_daily_infections(Swap(raw, i), NCases) = infections

\* C6 witness: two rows of one region and day with different counts, fetched
\* after a row of a region that sorts later, and a series that is not empty
C6_Witness ==
    /\ stage = "daily"
    /\ Len(raw) = 3
    /\ raw[1].Bundesland = "Berlin"
    /\ raw[2].Bundesland = "Bayern" /\ raw[3].Bundesland = "Bayern"
    /\ Day(raw[2].Meldedatum) = Day(raw[3].Meldedatum)
    /\ raw[2].Neuinfektionen # raw[3].Neuinfektionen
    /\ Len(infections) = 2

\* C9: on the earliest row of a region both growth columns are null; on every
\* other row absolute growth is the cumulative count minus that of the
\* region's row of the preceding date, and relative growth is that
\* difference over that same row's cumulative count.
C9_GrowthWithinRegion ==
    stage = "assigned" =>
        \A i \in 1..Len(df) :
            LET before == {j \in 1..Len(df) : /\ df[j].Bundesland = df[i].Bundesland
                                              /\ df[j].Meldedatum < df[i].Meldedatum}
            IN  IF before = {}
                THEN df[i].absolute_growth = Null /\ df[i].relative_growth = Null
                ELSE LET p == CHOOSE j \in before :
                                 \A k \in before : df[k].Meldedatum <= df[j].Meldedatum
                         growth == df[i].infections_cumulative - df[p].infections_cumulative
                     IN  /\ df[i].absolute_growth = Some(growth)
                         /\ df[i].relative_growth =
                                Some(<<growth, df[p].infections_cumulative>>)

\* C9 witness: the first row of the second region follows the last row of
\* the first, and the second region has a later row with its growth
C9_Witness ==
    /\ stage = "assigned"
    /\ Len(df) = 3
    /\ df[1].Bundesland # df[2].Bundesland
    /\ df[2].Bundesland = df[3].Bundesland
    /\ df[1].infections_cumulative # 0
    /\ df[2].absolute_growth = Null /\ df[2].relative_growth = Null
    /\ df[3].relative_growth # Null

(***************************************************************************)
(* SpecUnified: get_df on small frames of case reports, measures and       *)
(* mobility rows.                                                          *)
(***************************************************************************)
MeasureRows ==
    {[Bundesland |-> b, gueltig_ab |-> d, Massnahme |-> c] :
        b \in {"Bayern", "Berlin"}, d \in {0, 1}, c \in {Schule, Mundschutz}}

InitUnified ==
    /\ raw \in SeqsUpTo(RawRows({"Bayern", "Berlin"},
                                {0, SecondsPerDay, SecondsPerDay + 3600}, {50}), MaxRawU)
    /\ measures \in SeqsUpTo(MeasureRows, MaxMeas)
    /\ mobility \in {DownloadMobility(feed) :
                        feed \in SeqsUpTo({FeedRow("DE", "Bavaria", "NaN", 1),
                                           FeedRow("DE", "Berlin", "NaN", 2)}, 1)}
    /\ stage = "raw"
    /\ infections = <<>>
    /\ df = <<>>
    /\ CacheIdle
    /\ PageIdle

SpecUnified == InitUnified /\ [][NextPipe]_vars

\* C8: on every row, num_measures is the number of measure records of the
\* row's region and date (0 when there is none), and the measures string is
\* their categories joined by the connector in the table's order.
C8_NumMeasures ==
    (stage \in {"assigned", "done"}) =>
        \A i \in 1..Len(df) :
            LET recs == SelectSeq(measures,
                            LAMBDA m : /\ m.Bundesland = df[i].Bundesland
                                       /\ m.gueltig_ab = df[i].Meldedatum)
                texts == [j \in 1..Len(recs) |-> recs[j].Massnahme]
            IN  /\ df[i].num_measures =
                       (IF stage = "done" THEN Some(Len(recs)) ELSE Len(recs))
                /\ df[i].Massnahmen =
                       (IF recs = <<>> THEN Null ELSE Some(Join(texts, Connector)))

(***************************************************************************)
(* SpecPaging: one region's fetch against services of every size.          *)
(***************************************************************************)
\* a service holding one report of another state and n reports of Bayern,
\* which differ in their case counts
PagingRemote(n) ==
    << [Meldedatum |-> MsOfDay(1), AnzahlFall |-> 0, Bundesland |-> "Berlin"] >>
    \o [i \in 1..n |-> [Meldedatum |-> MsOfDay(1), AnzahlFall |-> i, Bundesland |-> "Bayern"]]

\* the sizes around every multiple of the page size
PagingSizes ==
    {n \in 0..(MaxPages * PageSize + Slack) :
        \E k \in 0..MaxPages : n - k * PageSize \in (0 - Slack)..Slack}

\* fetch_infection_data_from_rki(bundesland="Bayern")
FetchRegion ==
    /\ ~ pgOut.done
    /\ pgOut' = LET out == FetchPages(pgRemote, "Bayern", 0)
                IN  [df |-> out.df, offsets |-> out.offsets, done |-> TRUE]
    /\ UNCHANGED <<pgRemote, cacheVars, pipeVars>>

InitPaging ==
    /\ pgRemote \in {PagingRemote(n) : n \in PagingSizes}
    /\ pgOut = [df |-> <<>>, offsets |-> <<>>, done |-> FALSE]
    /\ CacheIdle
    /\ PipeIdle

NextPaging == FetchRegion

SpecPaging == InitPaging /\ [][NextPaging]_vars

\* C2: the fetch requests the offsets 0, 2000, 4000, ... one page past the
\* last full page, and returns the region's n reports once each, in the
\* service's order.
C2_Pagination ==
    pgOut.done =>
        LET n == Len(pgRemote) - 1
        IN  /\ pgOut.df = [i \in 1..n |->
                   [Meldedatum |-> SecondsPerDay, Neuinfektionen |-> i, Bundesland |-> "Bayern"]]
            /\ pgOut.offsets = [k \in 1..(n \div PageSize) + 1 |-> (k - 1) * PageSize]

\* C2 witness: a region of exactly two full pages was fetched with three requests
C2_Witness ==
    /\ pgOut.done
    /\ Len(pgOut.df) = 2 * PageSize
    /\ Len(pgOut.offsets) = 3

(***************************************************************************)
(* SpecMobility: the mobility download against every small CSV.            *)
(***************************************************************************)
InitMobility ==
    /\ today = 1
    /\ rkiRemote = <<>>
    /\ mobRemote \in SeqsUpTo(FeedRows({1}), MaxFeed)
    /\ rkiFiles = <<>>
    /\ mobFiles = <<>>
    /\ last = NoCall
    /\ PageIdle
    /\ PipeIdle

NextMobility == \E ow \in BOOLEAN, f \in BOOLEAN : GetGoogleMobilityData(ow, f)

SpecMobility == InitMobility /\ [][NextMobility]_vars

\* C7: every row of a fresh download comes from a row of the target country
\* that has a first-level subregion and no second-level subregion.
C7_FirstLevelOnly ==
    (last.fn = "mob" /\ last.fetches = 1 /\ last.outcome = "returned") =>
        \A j \in 1..Len(last.result) :
            LET src == mobRemote[last.result[j].index]
            IN  /\ src.country_region_code = "DE"
                /\ src.sub_region_1 # "NaN"
                /\ src.sub_region_2 = "NaN"

====
